---- MODULE Spec2Model ----
(***************************************************************************)
(* A model of src/src/vault.py: the PortableVault container (create, open, *)
(* stage, commit, extract, delete), its atomic save through a temporary    *)
(* file, the interactive shell that dispatches the commands, and the disk  *)
(* the program works on.                                                   *)
(*                                                                         *)
(* Strings that the code takes apart (entry keys, patterns, file names)    *)
(* are sequences of one-character strings, so that startswith and the "/"  *)
(* separator are computed and not assumed.  File contents are sequences of *)
(* bytes.  The AEAD and the KDF are ideal: a ciphertext opens only under   *)
(* the key and nonce that made it, and only while it is unmodified.        *)
(***************************************************************************)
EXTENDS Integers, Sequences, FiniteSets, TLC

\* ------------------------------------------------------------------ bounds
\* The longest staging list the operator builds before committing.
MaxStaged == 2
\* The number of changes the environment makes to the disk (source files
\* rewritten or removed, a stored ciphertext modified).
MaxEnv == 1
\* The number of times the scheduler changes the running process, where two
\* processes share the vault.
MaxTurns == 2

\* ------------------------------------------------------------ input domains
Passwords == {"pw1", "pw2"}
\* os.urandom(16) and os.urandom(12): a draw is any value of the domain.
Salts == {"s1"}
Nonces == {"n1", "n2"}
\* No operation tells two passwords or two nonces apart but by equality, and
\* a creation starts the vault afresh: the password and the nonce of a
\* creation are taken to be the first of their domain, the confirmation, the
\* password of an open and the nonce of an entry any value.
NewPasswords == {"pw1"}
VerNonces == {"n1"}
\* File contents the environment writes.
Contents == {<<0>>, <<1, 1>>}

\* ------------------------------------------------------------- the disk tree
\* Names, as sequences of characters.
N_w == <<"w">>
N_x == <<"x">>
N_d == <<"d">>
N_a == <<"a">>
N_s == <<"s">>
N_c == <<"c">>

\* Absolute paths, as sequences of names.
\*   /w/d/a  /w/d/s/c  /x/d    (regular files),  /w/d  /w/d/s  (directories)
F_a == <<N_w, N_d, N_a>>
F_c == <<N_w, N_d, N_s, N_c>>
F_xd == <<N_x, N_d>>
D_d == <<N_w, N_d>>
\* The directory the other paths start from: Path("/") for absolute paths,
\* Path(".") for paths given relative to the working directory.
Here == <<>>

Files == {F_a, F_c, F_xd}
Dirs == {Here, <<N_w>>, <<N_x>>, D_d, <<N_w, N_d, N_s>>}
\* The paths the operator gives to "add".
StagePaths == {D_d, F_xd}
\* The paths of an operator who adds the starting directory itself ("add .").
HerePaths == {Here, F_xd}
\* The paths of two operators who each add single files.
TwoPaths == {F_a, F_xd}
\* The order in which os.walk meets the files (top-down: a directory's own
\* files before those of its subdirectories).
WalkOrder == <<F_a, F_c, F_xd>>

NoSrc == [exists |-> FALSE, data |-> <<>>]
Src(c) == [exists |-> TRUE, data |-> c]
InitDisk ==
  [f \in Files |-> IF f = F_c THEN Src(<<1, 1>>) ELSE Src(<<0>>)]

\* ---------------------------------------------------------- pathlib, strings
\* Path.name: the last component; the empty string for "/" and for ".".
Name(path) == IF path = <<>> THEN <<>> ELSE path[Len(path)]
\* Path.parent: "/" and "." are their own parent.
Parent(path) == IF path = <<>> THEN <<>> ELSE SubSeq(path, 1, Len(path) - 1)
IsPrefix(pre, s) == Len(pre) <= Len(s) /\ SubSeq(s, 1, Len(pre)) = pre
\* Path.relative_to(base), for a path under base
RelativeTo(path, base) == SubSeq(path, Len(base) + 1, Len(path))
\* str(Path): the names joined with "/"
RECURSIVE Str(_)
Str(parts) ==
  IF Len(parts) = 0 THEN <<>>
  ELSE IF Len(parts) = 1 THEN parts[1]
  ELSE parts[1] \o <<"/">> \o Str(Tail(parts))
\* str.startswith
StartsWith(s, prefix) == IsPrefix(prefix, s)
\* Path.is_dir, Path.exists
IsDir(path) == path \in Dirs
\* (mutant) the path is not looked up.
Exists_Always(d, path) == TRUE
Exists(d, path) == IsDir(path) \/ (path \in Files /\ d[path].exists)
\* Path.with_suffix, a file name being <<stem, suffix>>
WithSuffix(name, suffix) == <<name[1], suffix>>

\* ------------------------------------------------------------ cryptography
\* b"verify"
VerifyPlain == <<118, 101, 114, 105, 102, 121>>
\* PBKDF2HMAC(...).derive: a function of the password and the salt.
DeriveKey(password, salt) == <<password, salt>>
\* AESGCM(key).encrypt(nonce, data, None)
AESGCM_encrypt(key, nonce, data) ==
  [key |-> key, nonce |-> nonce, data |-> data, intact |-> TRUE]
\* AESGCM(key).decrypt(nonce, ct, None): ok = FALSE is InvalidTag.
AESGCM_decrypt(key, nonce, ct) ==
  IF ct.intact /\ ct.key = key /\ ct.nonce = nonce
  THEN [ok |-> TRUE, data |-> ct.data]
  ELSE [ok |-> FALSE, data |-> <<>>]
\* One bit of a stored ciphertext flipped.
FlipBit(ct) == [ct EXCEPT !.intact = FALSE]

\* --------------------------------------------------------- files of the vault
NoFile == [kind |-> "none"]
\* A file opened for writing and not yet completely written.
Partial == [kind |-> "partial"]
VLT == <<"vault", ".vlt">>
TMP == <<"vault", ".tmp">>
VaultNames == {VLT, TMP}

\* (mutant) the token stored is not the one made under the key.
NewContainer_BadTag(salt, nonce, tag) ==
  [kind |-> "container", salt |-> salt, ver_nonce |-> nonce,
   ver_tag |-> FlipBit(tag), files |-> <<>>, metadata |-> <<>>]
\* The dict of main's pickle.dump at creation.
NewContainer(salt, nonce, tag) ==
  [kind |-> "container", salt |-> salt, ver_nonce |-> nonce, ver_tag |-> tag,
   files |-> <<>>, metadata |-> <<>>]

\* container['files'] is a dict: a sequence of entries in insertion order.
\* An entry is [key, nonce, ct, plain]; plain is a history field, the bytes
\* read from the disk when the entry was stored, that no operation reads.
Keys(files) == {files[i].key : i \in DOMAIN files}
IndexOf(files, k) == CHOOSE i \in DOMAIN files : files[i].key = k
\* (mutant) the key is not looked up.
DictSet_Append(files, e) == Append(files, e)
\* d[k] = v: in place when k is present, appended otherwise.
DictSet(files, e) ==
  IF e.key \in Keys(files)
  THEN [files EXCEPT ![IndexOf(files, e.key)] = e]
  ELSE Append(files, e)
\* del d[k] for every k of ks
DictDel(files, ks) == SelectSeq(files, LAMBDA e : e.key \notin ks)
\* container['metadata'] is a dict read by key only: a function.
MetaSet(meta, k, v) == [q \in DOMAIN meta \cup {k} |-> IF q = k THEN v ELSE meta[q]]
MetaDel(meta, ks) == [q \in DOMAIN meta \ ks |-> meta[q]]

VARIABLES
  vault_file,    \* the vault's file name, as given on the command line
  vdir,          \* the directory of the vault: file name -> file
  disk,          \* the source files: path -> [exists, data]
  session,       \* "none", "creating" (main's create branch) or "open"
  key,           \* self.key of the running process
  container,     \* self.container of the running process
  staging_area,  \* self.staging_area
  pc,            \* where the running command stands
  work,          \* commit: the (disk_path, vault_key) pairs still to store
  out,           \* the destination directory of extract, fresh at every call
  last,          \* the last command: [cmd, arg, result, selected]
  hist,          \* history of the last call: [before, mem, staged, stored, writes]
  createPw,      \* history: the passphrase of the last completed creation
  envLeft,       \* the steps the environment may still take
  other          \* a second process on the same vault file, while it waits

vars == <<vault_file, vdir, disk, session, key, container, staging_area, pc,
          work, out, last, hist, createPw, envLeft, other>>

NoKey == <<"", "">>
NoContainer == [kind |-> "none"]
NoOut == <<>>
Last(cmd, arg, result, selected) ==
  [cmd |-> cmd, arg |-> arg, result |-> result, selected |-> selected]
\* before: the vault file when the call began; mem: self.container when it
\* began; staged: self.staging_area when it began; stored: the keys the call
\* has stored; writes: the times the call has made the vault file a newly
\* written Container.
Hist(before, mem, staged, stored, writes) ==
  [before |-> before, mem |-> mem, staged |-> staged, stored |-> stored,
   writes |-> writes]
NoHist == Hist(NoFile, NoContainer, <<>>, <<>>, 0)
\* What a process holds between two commands, and its last command.
Process(s, k, c, staged, l) ==
  [session |-> s, key |-> k, container |-> c, staging_area |-> staged,
   last |-> l]
NoLast == Last("none", <<>>, "ok", {})

\* Everything but the vault's name, which the operator chooses.
InitRest ==
  /\ vdir = [n \in VaultNames |-> NoFile]
  /\ disk = InitDisk
  /\ session = "none"
  /\ key = NoKey
  /\ container = NoContainer
  /\ staging_area = <<>>
  /\ pc = "idle"
  /\ work = <<>>
  /\ out = NoOut
  /\ last = NoLast
  /\ hist = NoHist
  /\ createPw = "none"
  /\ envLeft = MaxEnv
  /\ other = Process("none", NoKey, NoContainer, <<>>, NoLast)

\* Without an interruption a command runs to its end whatever the temporary
\* file is called, so where nothing interrupts it the vault is vault.vlt.
Init == vault_file = VLT /\ InitRest
\* Where commands are interrupted, the vault's name is either one.
InitCrash == vault_file \in VaultNames /\ InitRest

\* --------------------------------------------------------------- main: create
\* main, "create" branch up to open(v_path, "wb"): the passwords are compared,
\* the salt and the nonce drawn, and the file opened (created or truncated).
CreateBegin(pwd, confirm) ==
  /\ session = "none" /\ pc = "idle"
  /\ IF pwd # confirm
     THEN /\ last' = Last("create", <<pwd, confirm>>, "Mismatch", {})
          /\ UNCHANGED <<vdir, session, key, container, pc, createPw, hist>>
     ELSE \E salt \in Salts, nonce \in VerNonces :
            LET k == DeriveKey(pwd, salt)
                tag == AESGCM_encrypt(k, nonce, VerifyPlain)
            IN /\ vdir' = [vdir EXCEPT ![vault_file] = Partial]
               /\ session' = "creating"
               /\ key' = k
               /\ container' = NewContainer(salt, nonce, tag)
               /\ pc' = "create_dump"
               /\ createPw' = "none"
               /\ hist' = Hist(vdir[vault_file], NoContainer, <<>>, <<>>, 0)
               /\ last' = Last("create", <<pwd, confirm>>, "running", {})
  /\ out' = NoOut
  /\ UNCHANGED <<vault_file, other, disk, staging_area, work, envLeft>>

\* pickle.dump into the open file, and the end of the process.
CreateDump ==
  /\ session = "creating" /\ pc = "create_dump"
  /\ vdir' = [vdir EXCEPT ![vault_file] = container]
  /\ createPw' = key[1]
  /\ session' = "none"
  /\ key' = NoKey
  /\ container' = NoContainer
  /\ pc' = "idle"
  /\ hist' = [hist EXCEPT !.writes = @ + 1]
  /\ last' = [last EXCEPT !.result = "ok"]
  /\ UNCHANGED <<vault_file, other, disk, staging_area, work, out, envLeft>>

\* ----------------------------------------------------- PortableVault.__init__
\* (mutant) the token is not checked.
VerifyVault_Skip(k, c) == TRUE
\* _verify_vault: the stored token must decrypt under the derived key.
VerifyVault(k, c) == AESGCM_decrypt(k, c.ver_nonce, c.ver_tag).ok

\* main, open branch: PortableVault(v_path, password), then run_shell.
Open(password) ==
  /\ session = "none" /\ pc = "idle"
  /\ LET f == vdir[vault_file]
         k == DeriveKey(password, f.salt)
     IN IF f.kind # "container"
        THEN /\ last' = Last("open", <<password>>, "Unreadable", {})
             /\ UNCHANGED <<session, key, container>>
        ELSE IF ~VerifyVault(k, f)
        THEN /\ last' = Last("open", <<password>>, "AuthFailed", {})
             /\ UNCHANGED <<session, key, container>>
        ELSE /\ last' = Last("open", <<password>>, "ok", {})
             /\ session' = "open"
             /\ key' = k
             /\ container' = f
  /\ staging_area' = <<>>
  /\ hist' = NoHist
  /\ out' = NoOut
  /\ UNCHANGED <<vault_file, other, vdir, disk, pc, work, createPw, envLeft>>

\* run_shell: "exit" | "quit"
Exit ==
  /\ session = "open" /\ pc = "idle"
  /\ session' = "none"
  /\ key' = NoKey
  /\ container' = NoContainer
  /\ staging_area' = <<>>
  /\ hist' = NoHist
  /\ last' = Last("exit", <<>>, "ok", {})
  /\ out' = NoOut
  /\ UNCHANGED <<vault_file, other, vdir, disk, pc, work, createPw, envLeft>>

\* run_shell: "add", "extract" and "delete" given too few arguments raise
\* before the vault is called.
UsageCommands == {"add", "extract", "delete"}
\* (mutant) the error leaves the loop of run_shell.
Usage_EndsSession(command) ==
  /\ session = "open" /\ pc = "idle"
  /\ session' = "none"
  /\ key' = NoKey
  /\ container' = NoContainer
  /\ staging_area' = <<>>
  /\ last' = Last("usage", <<command>>, "Usage", {})
  /\ hist' = NoHist
  /\ out' = NoOut
  /\ UNCHANGED <<vault_file, other, vdir, disk, pc, work, createPw, envLeft>>
Usage(command) ==
  /\ session = "open" /\ pc = "idle"
  /\ last' = Last("usage", <<command>>, "Usage", {})
  /\ hist' = NoHist
  /\ out' = NoOut
  /\ UNCHANGED <<vault_file, other, vdir, disk, session, key, container,
                 staging_area, pc, work, createPw, envLeft>>

\* run_shell, "case _": a command that is none of ls, add, update, extract,
\* delete, rm, exit and quit is reported as unknown.  "shred <path>" is one.
UnknownCommands == {"shred"}
\* The paths the operator gives to it.
ShredPaths == {F_xd}
\* (mutant) the command removes the file it names.
UnknownCommand_Unlinks(command, path) ==
  /\ session = "open" /\ pc = "idle"
  /\ disk' = [disk EXCEPT ![path] = NoSrc]
  /\ last' = Last(command, path, "Unknown", {})
  /\ hist' = NoHist
  /\ out' = NoOut
  /\ UNCHANGED <<vault_file, other, vdir, session, key, container,
                 staging_area, pc, work, createPw, envLeft>>
UnknownCommand(command, path) ==
  /\ session = "open" /\ pc = "idle"
  /\ last' = Last(command, path, "Unknown", {})
  /\ hist' = NoHist
  /\ out' = NoOut
  /\ UNCHANGED <<vault_file, other, vdir, disk, session, key, container,
                 staging_area, pc, work, createPw, envLeft>>

\* ------------------------------------------------------------------ stage_path
StagePath(target_path) ==
  /\ session = "open" /\ pc = "idle"
  /\ Len(staging_area) < MaxStaged
  /\ IF ~Exists(disk, target_path)
     THEN /\ last' = Last("add", target_path, "PathNotFound", {})
          /\ UNCHANGED staging_area
     ELSE /\ last' = Last("add", target_path, "ok", {})
          /\ staging_area' = Append(staging_area, target_path)
  /\ hist' = NoHist
  /\ out' = NoOut
  /\ UNCHANGED <<vault_file, other, vdir, disk, session, key, container, pc, work,
                 createPw, envLeft>>

\* -------------------------------------------------------------- commit_updates
Item(disk_path, vault_key) == [disk_path |-> disk_path, vault_key |-> vault_key]
\* os.walk(path): the regular files under path that are on the disk.
WalkFiles(d, path) ==
  SelectSeq(WalkOrder, LAMBDA f : IsPrefix(path, f) /\ Len(f) > Len(path) /\ d[f].exists)
\* One turn of "for path in self.staging_area": the calls of _encrypt_and_store
\* it makes.  A directory gives one call per file under it, keyed by the path
\* relative to the directory's parent; anything else one call keyed by its name.
PathWork(d, path) ==
  IF IsDir(path)
  THEN LET fs == WalkFiles(d, path)
       IN [i \in DOMAIN fs |-> Item(fs[i], Str(RelativeTo(fs[i], Parent(path))))]
  ELSE <<Item(path, Name(path))>>
RECURSIVE Expand(_, _)
Expand(d, staged) ==
  IF staged = <<>> THEN <<>>
  ELSE PathWork(d, Head(staged)) \o Expand(d, Tail(staged))

\* (mutant) _save inside the loop.
AfterStore_SaveInLoop(w) == "save_open"
\* The loop of commit_updates: _save comes after the last _encrypt_and_store.
AfterStore(w) == IF w = <<>> THEN "save_open" ELSE "store"

\* (mutant) the metadata table is not updated.
EncryptAndStore_NoMetadata(c, k, vault_key, data, nonce) ==
  [c EXCEPT
     !.files = DictSet(@, [key |-> vault_key, nonce |-> nonce,
                           ct |-> AESGCM_encrypt(k, nonce, data), plain |-> data])]
\* (mutant) the entry's nonce is also stored as the vault's.
EncryptAndStore_NewNonce(c, k, vault_key, data, nonce) ==
  [c EXCEPT
     !.files = DictSet(@, [key |-> vault_key, nonce |-> nonce,
                           ct |-> AESGCM_encrypt(k, nonce, data), plain |-> data]),
     !.metadata = MetaSet(@, vault_key, [size |-> Len(data)]),
     !.ver_nonce = nonce]
\* _encrypt_and_store, after the read: both tables get the key.
EncryptAndStore(c, k, vault_key, data, nonce) ==
  [c EXCEPT
     !.files = DictSet(@, [key |-> vault_key, nonce |-> nonce,
                           ct |-> AESGCM_encrypt(k, nonce, data), plain |-> data]),
     !.metadata = MetaSet(@, vault_key, [size |-> Len(data)])]

\* (mutant) an empty staging list is saved like any other.
CommitUpdates_SaveEmpty ==
  /\ session = "open" /\ pc = "idle"
  /\ work' = Expand(disk, staging_area)
  /\ pc' = AfterStore(Expand(disk, staging_area))
  /\ hist' = Hist(vdir[vault_file], container, staging_area, <<>>, 0)
  /\ last' = Last("commit", <<>>, "running", {})
  /\ out' = NoOut
  /\ UNCHANGED <<vault_file, other, vdir, disk, session, key, container,
                 staging_area, createPw, envLeft>>
\* commit_updates up to the loop.  The disk does not change while a command
\* runs, so the walk of every staged path is taken here.
CommitUpdates ==
  /\ session = "open" /\ pc = "idle"
  /\ IF staging_area = <<>>
     THEN /\ last' = Last("commit", <<>>, "NothingStaged", {})
          /\ hist' = NoHist
          /\ UNCHANGED <<pc, work>>
     ELSE LET w == Expand(disk, staging_area)
          IN /\ work' = w
             /\ pc' = AfterStore(w)
             /\ hist' = Hist(vdir[vault_file], container, staging_area, <<>>, 0)
             /\ last' = Last("commit", <<>>, "running", {})
  /\ out' = NoOut
  /\ UNCHANGED <<vault_file, other, vdir, disk, session, key, container, staging_area,
                 createPw, envLeft>>

\* (mutant) a failing read clears the staging list.
CommitStore_ClearsOnError ==
  /\ session = "open" /\ pc = "store"
  /\ LET it == Head(work)
         src == disk[it.disk_path]
     IN IF ~src.exists
        THEN /\ pc' = "idle"
             /\ work' = <<>>
             /\ last' = [last EXCEPT !.result = "ReadError"]
             /\ staging_area' = <<>>
             /\ UNCHANGED <<container, hist>>
        ELSE \E nonce \in Nonces :
               /\ container' = EncryptAndStore(container, key, it.vault_key, src.data, nonce)
               /\ work' = Tail(work)
               /\ pc' = AfterStore(Tail(work))
               /\ hist' = [hist EXCEPT !.stored = Append(@, it.vault_key)]
               /\ UNCHANGED <<last, staging_area>>
  /\ UNCHANGED <<vault_file, other, vdir, disk, session, key, out,
                 createPw, envLeft>>
\* One call of _encrypt_and_store.  A failing read_bytes raises out of
\* commit_updates to run_shell's handler.
CommitStore ==
  /\ session = "open" /\ pc = "store"
  /\ LET it == Head(work)
         src == disk[it.disk_path]
     IN IF ~src.exists
        THEN /\ pc' = "idle"
             /\ work' = <<>>
             /\ last' = [last EXCEPT !.result = "ReadError"]
             /\ UNCHANGED <<container, hist>>
        ELSE \E nonce \in Nonces :
               /\ container' = EncryptAndStore(container, key, it.vault_key, src.data, nonce)
               /\ work' = Tail(work)
               /\ pc' = AfterStore(Tail(work))
               /\ hist' = [hist EXCEPT !.stored = Append(@, it.vault_key)]
               /\ UNCHANGED last
  /\ UNCHANGED <<vault_file, other, vdir, disk, session, key, staging_area, out,
                 createPw, envLeft>>

\* ----------------------------------------------------------------------- _save
\* temp_file = self.vault_file.with_suffix(".tmp")
TempFile(name) == WithSuffix(name, ".tmp")
\* (mutant) the temporary file is not moved.
Replace_Nothing(dir, src, dst) == dir
\* Path.replace: an atomic rename; onto itself it changes nothing.
Replace(dir, src, dst) ==
  IF src = dst THEN dir ELSE [dir EXCEPT ![dst] = dir[src], ![src] = NoFile]

\* open(temp_file, "wb")
SaveOpen ==
  /\ session = "open" /\ pc = "save_open"
  /\ vdir' = [vdir EXCEPT ![TempFile(vault_file)] = Partial]
  /\ pc' = "save_dump"
  /\ UNCHANGED <<vault_file, other, disk, session, key, container, staging_area, work,
                 out, last, hist, createPw, envLeft>>

\* pickle.dump(self.container, f), and the file closed
SaveDump ==
  /\ session = "open" /\ pc = "save_dump"
  /\ vdir' = [vdir EXCEPT ![TempFile(vault_file)] = container]
  /\ pc' = "save_replace"
  /\ hist' = [hist EXCEPT !.writes = IF TempFile(vault_file) = vault_file THEN @ + 1 ELSE @]
  /\ UNCHANGED <<vault_file, other, disk, session, key, container, staging_area, work,
                 out, last, createPw, envLeft>>

\* temp_file.replace(self.vault_file), and what the caller does after _save:
\* commit_updates clears the staging list, delete returns.
SaveReplace ==
  /\ session = "open" /\ pc = "save_replace"
  /\ vdir' = Replace(vdir, TempFile(vault_file), vault_file)
  /\ hist' = [hist EXCEPT !.writes = IF TempFile(vault_file) = vault_file THEN @ ELSE @ + 1]
  /\ staging_area' = IF last.cmd = "commit" THEN <<>> ELSE staging_area
  /\ pc' = "idle"
  /\ last' = [last EXCEPT !.result = "ok"]
  /\ UNCHANGED <<vault_file, other, disk, session, key, container, work, out,
                 createPw, envLeft>>

\* ---------------------------------------------------------- extract and delete
\* (mutant) startswith(pattern), without the "/".
Matches_AnyPrefix(vault_pattern, v_path) ==
  v_path = vault_pattern \/ StartsWith(v_path, vault_pattern)
\* Match exact file OR files inside a folder prefix.
Matches(vault_pattern, v_path) ==
  v_path = vault_pattern \/ StartsWith(v_path, vault_pattern \o <<"/">>)

\* The patterns the operator gives to extract and delete:
\*   "d"  "d/a"  "d/"  "*"
Patterns == {N_d, <<"d", "/", "a">>, <<"d", "/">>, <<"*">>}

\* The destination directory: path below out_dir -> [type, data].
OutDir == [type |-> "dir", data |-> <<>>]
OutFile(data) == [type |-> "file", data |-> data]
OutAncestors(k) == {SubSeq(k, 1, i - 1) : i \in {j \in 1..Len(k) : k[j] = "/"}}
IsFileIn(o, p) == p \in DOMAIN o /\ o[p].type = "file"
IsDirIn(o, p) == p \in DOMAIN o /\ o[p].type = "dir"
\* target.parent.mkdir(parents=True, exist_ok=True); target.write_bytes(data)
\* mkdir fails on an ancestor that is a regular file, write_bytes on a
\* target that is a directory.
WriteOut(o, k, data) ==
  LET anc == OutAncestors(k)
      clash == {a \in anc : IsFileIn(o, a)}
      made == {a \in anc : \A b \in clash : Len(a) < Len(b)}
      o1 == [p \in DOMAIN o \cup made |-> IF p \in DOMAIN o THEN o[p] ELSE OutDir]
  IN IF clash # {} THEN [ok |-> FALSE, out |-> o1]
     ELSE IF IsDirIn(o1, k) THEN [ok |-> FALSE, out |-> o1]
     ELSE [ok |-> TRUE,
           out |-> [p \in DOMAIN o1 \cup {k} |-> IF p = k THEN OutFile(data) ELSE o1[p]]]

ExtractState(o, error, selected) == [out |-> o, error |-> error, selected |-> selected]
\* The loop of extract over list(self.container['files'].keys()); an
\* exception of decrypt, mkdir or write_bytes leaves the loop and the call.
RECURSIVE ExtractLoop(_, _, _, _)
ExtractLoop(files, k, vault_pattern, st) ==
  IF files = <<>>
  THEN IF st.selected = {} THEN [st EXCEPT !.error = "NoMatch"] ELSE st
  ELSE LET e == Head(files)
           dec == AESGCM_decrypt(k, e.nonce, e.ct)
           w == WriteOut(st.out, e.key, dec.data)
           sel == st.selected \cup {e.key}
       IN IF ~Matches(vault_pattern, e.key)
          THEN ExtractLoop(Tail(files), k, vault_pattern, st)
          ELSE IF ~dec.ok THEN ExtractState(st.out, "InvalidTag", sel)
          ELSE IF ~w.ok THEN ExtractState(w.out, "FsError", sel)
          ELSE ExtractLoop(Tail(files), k, vault_pattern, ExtractState(w.out, "ok", sel))

\* (mutant) the entries extracted are taken out of the Container.
Extract_Removes(vault_pattern) ==
  /\ session = "open" /\ pc = "idle"
  /\ LET r == ExtractLoop(container.files, key, vault_pattern, ExtractState(NoOut, "ok", {}))
     IN /\ out' = r.out
        /\ last' = Last("extract", vault_pattern, r.error, r.selected)
        /\ container' = [container EXCEPT !.files = DictDel(@, DOMAIN r.out)]
  /\ hist' = NoHist
  /\ UNCHANGED <<vault_file, other, vdir, disk, session, key, staging_area,
                 pc, work, createPw, envLeft>>
\* extract(vault_pattern, out_dir), out_dir being a fresh directory.
Extract(vault_pattern) ==
  /\ session = "open" /\ pc = "idle"
  /\ LET r == ExtractLoop(container.files, key, vault_pattern, ExtractState(NoOut, "ok", {}))
     IN /\ out' = r.out
        /\ last' = Last("extract", vault_pattern, r.error, r.selected)
  /\ hist' = NoHist
  /\ UNCHANGED <<vault_file, other, vdir, disk, session, key, container, staging_area,
                 pc, work, createPw, envLeft>>

\* (mutant) every key is a target.
Targets_AllKeys(c, vault_pattern) == Keys(c.files)
\* targets = [k for k in files.keys() if k == pattern or k.startswith(pattern/)]
Targets(c, vault_pattern) == {k \in Keys(c.files) : Matches(vault_pattern, k)}
\* (mutant) the metadata of the targets is kept.
RemoveTargets_KeepMetadata(c, targets) == [c EXCEPT !.files = DictDel(@, targets)]
\* for t in targets: del files[t]; del metadata[t]
RemoveTargets(c, targets) ==
  [c EXCEPT !.files = DictDel(@, targets), !.metadata = MetaDel(@, targets)]
\* (mutant) nothing is unstaged.
Unstage_Nothing(staged, vault_pattern) == staged
\* self.staging_area = [p for p in self.staging_area if p.name != vault_pattern]
Unstage(staged, vault_pattern) == SelectSeq(staged, LAMBDA p : Name(p) # vault_pattern)

\* delete(vault_pattern) up to _save.
Delete(vault_pattern) ==
  /\ session = "open" /\ pc = "idle"
  /\ staging_area' = Unstage(staging_area, vault_pattern)
  /\ LET targets == Targets(container, vault_pattern)
     IN IF targets = {}
        THEN /\ last' = Last("delete", vault_pattern, "NoMatch", {})
             /\ hist' = Hist(vdir[vault_file], container, staging_area, <<>>, 0)
             /\ UNCHANGED <<container, pc>>
        ELSE /\ container' = RemoveTargets(container, targets)
             /\ pc' = "save_open"
             /\ hist' = Hist(vdir[vault_file], container, staging_area, <<>>, 0)
             /\ last' = Last("delete", vault_pattern, "running", targets)
  /\ out' = NoOut
  /\ UNCHANGED <<vault_file, other, vdir, disk, session, key, work, createPw, envLeft>>

\* ------------------------------------------------------------- the environment
\* The process is interrupted inside a command: its memory is gone, the
\* files stay as they are.
Crash ==
  /\ pc # "idle"
  /\ session' = "none"
  /\ key' = NoKey
  /\ container' = NoContainer
  /\ staging_area' = <<>>
  /\ pc' = "idle"
  /\ work' = <<>>
  /\ last' = [last EXCEPT !.result = "Crashed"]
  /\ UNCHANGED <<vault_file, other, vdir, disk, out, hist, createPw, envLeft>>

\* Between two commands of a session a source file is written or removed.
\* (Only a session reads the source files, so a change made while none is
\* open is the same change made after the next open.)
WriteSrc(f, c) ==
  /\ pc = "idle" /\ session = "open" /\ envLeft > 0
  /\ disk[f] # Src(c)
  /\ disk' = [disk EXCEPT ![f] = Src(c)]
  /\ envLeft' = envLeft - 1
  /\ UNCHANGED <<vault_file, other, vdir, session, key, container, staging_area, pc,
                 work, out, last, hist, createPw>>

RemoveSrc(f) ==
  /\ pc = "idle" /\ session = "open" /\ envLeft > 0
  /\ disk[f].exists
  /\ disk' = [disk EXCEPT ![f] = NoSrc]
  /\ envLeft' = envLeft - 1
  /\ UNCHANGED <<vault_file, other, vdir, session, key, container, staging_area, pc,
                 work, out, last, hist, createPw>>

\* While no session is open, one bit of the i-th stored ciphertext of the
\* vault file is flipped (TamperAt: the positions taken).
Tamper(i) ==
  /\ pc = "idle" /\ session = "none" /\ envLeft > 0
  /\ vdir[vault_file].kind = "container"
  /\ i \in DOMAIN vdir[vault_file].files
  /\ vdir[vault_file].files[i].ct.intact
  /\ vdir' = [vdir EXCEPT ![vault_file].files[i].ct = FlipBit(@)]
  /\ envLeft' = envLeft - 1
  /\ UNCHANGED <<vault_file, other, disk, session, key, container, staging_area, pc,
                 work, out, last, hist, createPw>>

\* Two processes run main on the same vault file; the scheduler takes the
\* running one off between two of its commands and puts the other on.  (The
\* history of the last call is that of the running process alone.)
Switch ==
  /\ pc = "idle" /\ envLeft > 0
  /\ envLeft' = envLeft - 1
  /\ other' = Process(session, key, container, staging_area, last)
  /\ session' = other.session
  /\ key' = other.key
  /\ container' = other.container
  /\ staging_area' = other.staging_area
  /\ last' = other.last
  /\ hist' = NoHist
  /\ out' = NoOut
  /\ UNCHANGED <<vault_file, vdir, disk, pc, work, createPw>>

\* The source files the environment removes.
EnvFiles == {F_a, F_xd}

\* The stored ciphertext the environment modifies: the first of the file.
TamperAt == {1}

\* The source file the environment rewrites.
WriteFiles == {F_xd}

\* The steps of the program but "add": main, run_shell and the commands.
Commands ==
  \/ \E pwd \in NewPasswords, confirm \in Passwords : CreateBegin(pwd, confirm)
  \/ CreateDump
  \/ \E password \in Passwords : Open(password)
  \/ Exit
  \/ \E command \in UsageCommands : Usage(command)
  \/ \E command \in UnknownCommands, p \in ShredPaths : UnknownCommand(command, p)
  \/ CommitUpdates
  \/ CommitStore
  \/ SaveOpen
  \/ SaveDump
  \/ SaveReplace
  \/ \E p \in Patterns : Extract(p)
  \/ \E p \in Patterns : Delete(p)

\* The steps of the program.
Program == Commands \/ \E p \in StagePaths : StagePath(p)

Environment ==
  \/ \E f \in WriteFiles, c \in Contents : WriteSrc(f, c)
  \/ \E f \in EnvFiles : RemoveSrc(f)
  \/ \E i \in TamperAt : Tamper(i)

\* The program and a changing disk.
Next == Program \/ Environment
Spec == Init /\ [][Next]_vars

\* The program, interrupted at any step of a command, on an unchanging disk.
NextCrash == Program \/ Crash
SpecCrash == InitCrash /\ [][NextCrash]_vars

\* The program of an operator who adds the starting directory.
NextHere == Commands \/ \E p \in HerePaths : StagePath(p)
SpecHere == Init /\ [][NextHere]_vars

\* Two processes on a vault created earlier, each adding and committing,
\* that take turns between commands.
InitTwo ==
  /\ vault_file = VLT
  /\ \E pwd \in NewPasswords, salt \in Salts, nonce \in VerNonces :
       /\ vdir = [n \in VaultNames |->
                   IF n = VLT
                   THEN NewContainer(salt, nonce,
                          AESGCM_encrypt(DeriveKey(pwd, salt), nonce, VerifyPlain))
                   ELSE NoFile]
       /\ createPw = pwd
  /\ disk = InitDisk
  /\ session = "none"
  /\ key = NoKey
  /\ container = NoContainer
  /\ staging_area = <<>>
  /\ pc = "idle"
  /\ work = <<>>
  /\ out = NoOut
  /\ last = NoLast
  /\ hist = NoHist
  /\ envLeft = MaxTurns
  /\ other = Process("none", NoKey, NoContainer, <<>>, NoLast)

NextTwo ==
  \/ \E password \in NewPasswords : Open(password)
  \/ \E p \in TwoPaths : StagePath(p)
  \/ CommitUpdates
  \/ CommitStore
  \/ SaveOpen
  \/ SaveDump
  \/ SaveReplace
  \/ Switch
SpecTwo == InitTwo /\ [][NextTwo]_vars

\* ====================================================================== claims
Range(f) == {f[i] : i \in DOMAIN f}
Returned == pc = "idle"
InSession == session = "open" /\ pc = "idle"
VaultOnDisk == vdir[vault_file]
\* The entries of c that the pattern p of the claims selects, by position.
Selected(c, p) == {e \in Range(c.files) : Matches(p, e.key)}
\* Two keys of which one names a directory on the way to the other cannot
\* both be files below one destination.
PathClash(k1, k2) == k1 \in OutAncestors(k2) \/ k2 \in OutAncestors(k1)
ExtractedAs(e) == e.key \in DOMAIN out /\ out[e.key] = OutFile(e.plain)

\* C1: round trip.  After extract(key, out_dir) has returned, for the entry
\* of that key, stored by a commit that was persisted and unmodified since,
\* out_dir/key is a regular file holding exactly the bytes the commit read.
C1_RoundTrip ==
  (InSession /\ last.cmd = "extract") =>
    \A e \in Range(container.files) :
      (e.key = last.arg /\ e.ct.intact /\ e \in Range(VaultOnDisk.files))
        => ExtractedAs(e)

\* C2: a passphrase other than the one of the creation never opens the
\* vault: a session is open only under the creation passphrase, and an open
\* of a readable vault file with another passphrase ends with the
\* authentication error, no session and no container in memory.
C2_WrongPassphraseNeverOpens ==
  /\ session = "open" => key[1] = createPw
  /\ (last.cmd = "open" /\ VaultOnDisk.kind = "container" /\ last.arg[1] # createPw)
       => (last.result = "AuthFailed" /\ session = "none" /\ container = NoContainer)
C2_Witness ==
  /\ last.cmd = "open" /\ last.arg = <<"pw2">> /\ last.result = "AuthFailed"
  /\ createPw = "pw1"
  /\ VaultOnDisk.kind = "container" /\ Len(VaultOnDisk.files) >= 2

\* C3: atomic persist.  After a commit or a delete was interrupted, at
\* whatever step, the vault file is a completely written Container: the one
\* on disk before the call, or the one the call wrote.
C3_AtomicPersist ==
  (Returned /\ last.cmd \in {"commit", "delete"} /\ last.result = "Crashed")
    => /\ VaultOnDisk.kind = "container"
       /\ VaultOnDisk = hist.before \/ hist.writes = 1

\* C4: in every state the entries table and the metadata table of the
\* in-memory Container, and of every Container on disk, have the same keys.
KeySetsAgree(c) == c.kind = "container" => Keys(c.files) = DOMAIN c.metadata
C4_KeySetsAgree ==
  /\ KeySetsAgree(container)
  /\ \A n \in VaultNames : KeySetsAgree(vdir[n])
C4_Witness ==
  /\ InSession /\ last.cmd = "commit" /\ last.result = "ReadError"
  /\ Len(container.files) >= 2
  /\ VaultOnDisk.kind = "container" /\ Len(VaultOnDisk.files) >= 1

\* C5: tamper isolation.  After an extract whose pattern selects several
\* entries that can all be files below one destination, one of them with a
\* modified ciphertext, the modified entry has no output and every other
\* selected entry is extracted with its content.
C5_TamperIsolation ==
  (InSession /\ last.cmd = "extract") =>
    LET m == Selected(container, last.arg)
    IN (/\ Cardinality(m) >= 2
        /\ \E e \in m : ~e.ct.intact
        /\ \A e1, e2 \in m : ~PathClash(e1.key, e2.key))
       => \A e \in m : IF e.ct.intact THEN ExtractedAs(e) ELSE e.key \notin DOMAIN out

\* C7: best-effort commit.  After a commit in which a read failed, the
\* entries the call stored before the failure are in the vault file.
C7_BestEffortCommit ==
  (Returned /\ last.cmd = "commit" /\ last.result = "ReadError") =>
    \A e \in Range(container.files) :
      e.key \in Range(hist.stored) => e \in Range(VaultOnDisk.files)

\* C8: a commit of a non-empty staging list whose reads all succeed writes
\* the vault file exactly once, after its last insertion and never between
\* two insertions, and returns with the staging list empty.
Saving == pc \in {"save_open", "save_dump", "save_replace"}
C8_OneWriteAfterLastStore ==
  last.cmd = "commit" =>
    /\ pc = "store" => (hist.writes = 0 /\ VaultOnDisk = hist.before)
    /\ Saving => (work = <<>> /\ hist.writes = 0)
    /\ (Returned /\ last.result = "ok")
         => (hist.writes = 1 /\ staging_area = <<>> /\ work = <<>>)
C8_Witness ==
  /\ Returned /\ last.cmd = "commit" /\ last.result = "ok"
  /\ Len(hist.stored) >= 3 /\ hist.writes = 1
  /\ VaultOnDisk = container

\* C9: whenever the session is idle between two commands, the in-memory
\* Container equals the Container stored in the vault file.
C9_MemoryEqualsFile == InSession => container = VaultOnDisk

\* C10 as stated: a key is selected iff the pattern is the wildcard, or is
\* the key, or the key starts with the pattern followed by "/".
Wildcard == <<"*">>
DirPrefix(p, k) ==
  /\ Len(k) > Len(p)
  /\ \A i \in 1..Len(p) : k[i] = p[i]
  /\ k[Len(p) + 1] = "/"
\* The keys a completed extract or a delete had to choose from.
Examined ==
  IF last.cmd = "delete" THEN Keys(hist.mem.files) ELSE Keys(container.files)
Chose ==
  /\ Returned /\ session = "open"
  /\ \/ last.cmd = "delete"
     \/ last.cmd = "extract" /\ last.result \in {"ok", "NoMatch"}
C10_MatchWithWildcard ==
  Chose => last.selected =
    {k \in Examined : last.arg = Wildcard \/ last.arg = k \/ DirPrefix(last.arg, k)}
\* C10 as amended: there is no wildcard.  A key is selected iff the pattern
\* is the key or the key starts with the pattern followed by "/"; "*" is a
\* pattern like any other.
C10_Match ==
  Chose => last.selected = {k \in Examined : last.arg = k \/ DirPrefix(last.arg, k)}
C10_Witness ==
  /\ Chose /\ last.cmd = "extract" /\ last.arg = <<"d", "/">>
  /\ <<"d", "/", "a">> \in Examined
  /\ last.selected = {}

\* C11: the entry keys a commit produces.  When the last entry of a commit is
\* stored, with P the staged paths: a staged regular file has given the key
\* of its name, a staged directory D one key per regular file under D, the
\* file's path relative to D's parent, and nothing else was stored; each key
\* is the key of exactly one entry; and every key of a directory D starts
\* with D's name followed by "/" and is removed by delete(D's name).
FilesUnder(D) ==
  {f \in Files : disk[f].exists /\ Len(f) > Len(D) /\ SubSeq(f, 1, Len(D)) = D}
KeysOf(p) ==
  IF p \in Dirs THEN {Str(RelativeTo(f, Parent(p))) : f \in FilesUnder(p)}
  ELSE {Name(p)}
EntriesOf(c, k) == {i \in DOMAIN c.files : c.files[i].key = k}
C11_EntryKeys ==
  (last.cmd = "commit" /\ Saving) =>
    LET staged == Range(hist.staged)
        produced == UNION {KeysOf(p) : p \in staged}
    IN /\ Range(hist.stored) = produced
       /\ Keys(container.files) = Keys(hist.mem.files) \cup produced
       /\ \A k \in produced : Cardinality(EntriesOf(container, k)) = 1
       /\ \A D \in staged \cap Dirs : \A k \in KeysOf(D) :
            /\ DirPrefix(Name(D), k)
            /\ k \in Targets(container, Name(D))
            /\ k \notin Keys(RemoveTargets(container, Targets(container, Name(D))).files)

\* C12: a delete(pattern) that matches.  After it has returned: exactly the
\* matching keys are gone from the entries and from the metadata; every other
\* entry, in its place, and its metadata are what they were; the vault file
\* was written once and is the Container in memory.  Closing the session
\* leaves the vault file as it is and opening loads it, so the removed keys
\* are absent after a reopening.
MatchedBy(p, keys) == {k \in keys : p = k \/ DirPrefix(p, k)}
DeleteFrame ==
  (InSession /\ last.cmd = "delete" /\ MatchedBy(last.arg, Keys(hist.mem.files)) # {}) =>
    LET old == hist.mem
        gone == MatchedBy(last.arg, Keys(old.files))
    IN /\ last.result = "ok"
       /\ Keys(container.files) = Keys(old.files) \ gone
       /\ DOMAIN container.metadata = DOMAIN old.metadata \ gone
       /\ container.files = SelectSeq(old.files, LAMBDA e : e.key \notin gone)
       /\ \A k \in DOMAIN container.metadata : container.metadata[k] = old.metadata[k]
       /\ hist.writes = 1
       /\ VaultOnDisk = container
Reopening ==
  /\ (session = "open" /\ pc = "idle" /\ session' = "none") => vdir' = vdir
  /\ (session = "none" /\ session' = "open") => (vdir' = vdir /\ container' = VaultOnDisk)
C12_DeleteFrame == []DeleteFrame /\ [][Reopening]_vars
C12_Witness ==
  /\ InSession /\ last.cmd = "delete" /\ last.result = "ok"
  /\ last.arg = <<"d", "/", "a">>
  /\ Len(hist.mem.files) = 3 /\ Len(container.files) = 2

\* A step in which the running session calls the command cmd: the program,
\* not the environment, moves, from between two commands.
Calls(cmd) ==
  /\ session = "open" /\ pc = "idle"
  /\ envLeft' = envLeft
  /\ last'.cmd = cmd

\* C13: an extract or a delete whose pattern selects no key of the Container
\* fails with the no-match error, changes nothing of the in-memory Container
\* and writes no file of the vault.
NoMatchStep ==
  ((Calls("extract") \/ Calls("delete"))
     /\ MatchedBy(last'.arg, Keys(container.files)) = {})
    => /\ last'.result = "NoMatch"
       /\ pc' = "idle"
       /\ container' = container
       /\ vdir' = vdir
C13_NoMatchFails == [][NoMatchStep]_vars
C13_Witness ==
  /\ InSession /\ last.cmd = "delete" /\ last.result = "NoMatch"
  /\ last.arg = <<"*">>
  /\ Len(container.files) = 3 /\ VaultOnDisk = container

\* C14: stage(path) looks the path up when it is called.  A path that is
\* not on the disk then is refused with the path-not-found error and the
\* staging list stays; a path that is, is appended.  Neither changes the
\* in-memory Container or a file of the vault.
OnDisk(p) == p \in Dirs \/ (p \in Files /\ disk[p].exists)
StageStep ==
  Calls("add") =>
    /\ IF OnDisk(last'.arg)
       THEN last'.result = "ok" /\ staging_area' = Append(staging_area, last'.arg)
       ELSE last'.result = "PathNotFound" /\ staging_area' = staging_area
    /\ container' = container
    /\ vdir' = vdir
EmptyCommitStep ==
  (Calls("commit") /\ staging_area = <<>>)
    => /\ last'.result = "NothingStaged"
       /\ pc' = "idle"
       /\ vdir' = vdir
       /\ container' = container
       /\ staging_area' = <<>>
C15_EmptyCommitNoOp == [][EmptyCommitStep]_vars
C15_Witness ==
  /\ InSession /\ last.cmd = "commit" /\ last.result = "NothingStaged"
  /\ Len(container.files) >= 1 /\ VaultOnDisk = container
  /\ \A n \in VaultNames : n # vault_file => vdir[n] = NoFile

\* C16 as stated: within a session the staging list changes only by a
\* successful stage, which appends the path, and by a successful commit,
\* which empties it (so neither an extract nor a delete changes it), and a
\* session that opens starts with an empty list.
Appends ==
  Calls("add") /\ last'.result = "ok" /\ staging_area' = Append(staging_area, last'.arg)
CommitEmpties ==
  last.cmd = "commit" /\ pc = "save_replace" /\ pc' = "idle" /\ staging_area' = <<>>
OpensEmpty == (session # "open" /\ session' = "open") => staging_area' = <<>>
StagingStep ==
  /\ (session = "open" /\ session' = "open" /\ staging_area' # staging_area)
       => (Appends \/ CommitEmpties)
  /\ OpensEmpty
C16_StagingLifecycle == [][StagingStep]_vars
\* C16 as amended: a delete(pattern), succeeding or failing, also takes off
\* the staging list every path whose last component is the pattern, and
\* leaves the other paths; an extract leaves the list as it is.
LastComponent(p) == IF Len(p) = 0 THEN <<>> ELSE p[Len(p)]
DeleteUnstages ==
  /\ Calls("delete")
  /\ staging_area' = SelectSeq(staging_area, LAMBDA p : LastComponent(p) # last'.arg)
StagingStepWithDelete ==
  /\ (session = "open" /\ session' = "open" /\ staging_area' # staging_area)
       => (Appends \/ CommitEmpties \/ DeleteUnstages)
  /\ Calls("delete") => DeleteUnstages
  /\ Calls("extract") => staging_area' = staging_area
  /\ OpensEmpty
C16_StagingLifecycleWithDelete == [][StagingStepWithDelete]_vars
\* A delete that failed, no key matching, has emptied a list of two paths.
C16_Witness ==
  /\ InSession /\ last.cmd = "delete" /\ last.result = "NoMatch"
  /\ last.arg = N_d
  /\ hist.staged = <<D_d, F_xd>> /\ staging_area = <<>>

\* C17 as stated: a command that failed with a command-level error leaves
\* the session open and between two commands, where run_shell reads the
\* next one; the session ends by exit alone; and a run of main that ends with
\* an error and no session is an unreadable vault file or a mismatch of the
\* two passphrases of a creation.
CommandErrors ==
  {"Usage", "PathNotFound", "NoMatch", "InvalidTag", "FsError", "ReadError"}
AcceptsNext ==
  /\ session = "open" /\ pc = "idle"
  /\ ENABLED Exit
SessionSurvives == last.result \in CommandErrors => AcceptsNext
EndsByExit == (session = "open" /\ session' # "open") => last'.cmd = "exit"
EndedByError == session = "none" /\ pc = "idle" /\ last.result # "ok"
LoadFailure == last.cmd = "open" /\ last.result = "Unreadable"
Mismatch == last.cmd = "create" /\ last.result = "Mismatch"
AuthFailure == last.cmd = "open" /\ last.result = "AuthFailed"
C17_ErrorsKeepSession ==
  /\ []SessionSurvives
  /\ [][EndsByExit]_vars
  /\ [](EndedByError => (LoadFailure \/ Mismatch))
\* C17 as amended: a run of main also ends with an error when the passphrase
\* given to open fails the verification.
C17_ErrorsKeepSessionOrAuth ==
  /\ []SessionSurvives
  /\ [][EndsByExit]_vars
  /\ [](EndedByError => (LoadFailure \/ AuthFailure \/ Mismatch))
\* A session with a staged path in which an extract has met a modified
\* entry.
C17_Witness ==
  /\ InSession /\ last.cmd = "extract" /\ last.result = "InvalidTag"
  /\ staging_area # <<>>

\* C18: creation.  A creation whose two passphrases differ ends with the
\* mismatch and creates or writes no file of the vault; one whose
\* passphrases are equal goes on to write the vault file, and once written
\* the file holds an empty entries table and an empty metadata table and
\* its token verifies under the key of that passphrase.
CreateStep ==
  (session = "none" /\ pc = "idle" /\ envLeft' = envLeft /\ last'.cmd = "create") =>
    IF last'.arg[1] # last'.arg[2]
    THEN last'.result = "Mismatch" /\ vdir' = vdir /\ session' = "none" /\ pc' = "idle"
    ELSE last'.result = "running" /\ pc' = "create_dump"
Created ==
  (Returned /\ last.cmd = "create" /\ last.result = "ok") =>
    /\ last.arg[1] = last.arg[2]
    /\ VaultOnDisk.kind = "container"
    /\ VaultOnDisk.files = <<>>
    /\ VaultOnDisk.metadata = <<>>
    /\ AESGCM_decrypt(DeriveKey(last.arg[1], VaultOnDisk.salt),
                      VaultOnDisk.ver_nonce, VaultOnDisk.ver_tag).ok
OpensCreated ==
  (last.cmd = "create" /\ last.result = "ok" /\ pc = "idle"
     /\ last'.cmd = "open" /\ last'.arg[1] = last.arg[1])
    => (last'.result = "ok" /\ session' = "open" /\ container'.files = <<>>)
C18_Creation == []Created /\ [][CreateStep /\ OpensCreated]_vars
\* A mismatch at the creation of a vault whose file exists and holds entries.
C18_Witness ==
  /\ last.cmd = "create" /\ last.result = "Mismatch" /\ last.arg = <<"pw1", "pw2">>
  /\ VaultOnDisk.kind = "container" /\ Len(VaultOnDisk.files) >= 1

\* C19: the salt, the nonce and the tag of the verification token, in every
\* Container of a session and in every completely written file of the vault,
\* are those written by the last creation, whatever was staged, committed,
\* extracted or deleted since; and the token verifies under the key of the
\* creation passphrase.  (A creation draws its salt from Salts and its nonce
\* from VerNonces, one value each: the passphrase names what it wrote.)
Header(c) == <<c.salt, c.ver_nonce, c.ver_tag>>
CreationHeaders ==
  {<<salt, nonce, AESGCM_encrypt(DeriveKey(createPw, salt), nonce, VerifyPlain)>> :
     salt \in Salts, nonce \in VerNonces}
KeepsHeader(c) ==
  c.kind = "container" =>
    /\ Header(c) \in CreationHeaders
    /\ AESGCM_decrypt(DeriveKey(createPw, c.salt), c.ver_nonce, c.ver_tag).ok
C19_HeaderUnchanged ==
  createPw # "none" =>
    /\ KeepsHeader(container)
    /\ \A n \in VaultNames : KeepsHeader(vdir[n])
\* The vault reopened with the creation passphrase after a commit of the
\* directory d and a delete of d/a.
C19_Witness ==
  /\ InSession /\ last.cmd = "open" /\ last.result = "ok" /\ last.arg = <<createPw>>
  /\ Keys(container.files) = {<<"d", "/", "s", "/", "c">>}
  /\ disk[F_a].exists

\* C20: two sessions on one vault file.  Nothing keeps the second process
\* from opening the vault while the first has it open, and the save that
\* ends a commit makes the vault file the whole Container of the process
\* that commits, whatever the file held: the entries of the file that this
\* process never loaded are gone.  The witness is the lost update: the last
\* command of either process is a commit that succeeded, so the Container of
\* the waiting process was the vault file when its commit returned; none has
\* deleted; and the vault file lacks a key of that Container.
SavesOwnContainer ==
  (pc = "save_replace" /\ pc' = "idle") =>
    /\ vdir'[vault_file] = container
    /\ Keys(vdir'[vault_file].files) = Keys(hist.mem.files) \cup Range(hist.stored)
NoLock ==
  (session = "none" /\ pc = "idle" /\ VaultOnDisk.kind = "container")
    => ENABLED Open(createPw)
C20_WholeContainerSaved == []NoLock /\ [][SavesOwnContainer]_vars
C20_LostUpdate ==
  /\ session = "open" /\ other.session = "open" /\ pc = "idle"
  /\ last.cmd = "commit" /\ last.result = "ok"
  /\ other.last.cmd = "commit" /\ other.last.result = "ok"
  /\ VaultOnDisk = container
  /\ \E k \in Keys(other.container.files) : k \notin Keys(VaultOnDisk.files)


\* What extract(p, fresh directory) gives on the Container c: the files
\* written and the way the call ends.
Extraction(c, p) == ExtractLoop(c.files, key, p, ExtractState(NoOut, "ok", {}))
\* An extraction that has returned is the one a second call with the same
\* pattern, made before any other command, makes from the Container as it
\* is now.
SameAgain ==
  (InSession /\ last.cmd = "extract") =>
    /\ out = Extraction(container, last.arg).out
    /\ last.result = Extraction(container, last.arg).error
\* An extract call changes neither the Container in memory nor the vault file.
ExtractReadOnly ==
  Calls("extract") => /\ container' = container
                      /\ key' = key
                      /\ vdir' = vdir
                      /\ session' = session
\* Within a session only the steps of a commit and of a delete change the
\* Container or the key: between two extract calls with no commit or delete
\* in between both are the same.
OnlyCommitDeleteChange ==
  (session = "open" /\ session' = "open" /\ envLeft' = envLeft
     /\ <<container, key>>' # <<container, key>>)
    => last'.cmd \in {"commit", "delete"}
ShredsFile ==
  /\ Calls("shred")
  /\ last'.arg \in Files
  /\ disk[last'.arg].exists
ShredFrame ==
  /\ container' = container
  /\ staging_area' = staging_area
  /\ vdir' = vdir
StoresOver ==
  /\ session = "open" /\ pc = "store"
  /\ hist'.stored # hist.stored
  /\ Head(work).vault_key \in Keys(container.files)
\* After the step there is one entry and one metadata record of the key,
\* both of the bytes just read, and the other entries and records are as
\* they were, in the same order.
Overwritten ==
  LET k == Head(work).vault_key
      data == disk[Head(work).disk_path].data
      at == EntriesOf(container', k)
  IN /\ Cardinality(at) = 1
     /\ \A i \in at :
          /\ container'.files[i].plain = data
          /\ \E nonce \in Nonces :
               /\ container'.files[i].nonce = nonce
               /\ container'.files[i].ct = AESGCM_encrypt(key, nonce, data)
     /\ k \in DOMAIN container'.metadata
     /\ container'.metadata[k] = [size |-> Len(data)]
     /\ Len(container'.files) = Len(container.files)
     /\ DictDel(container'.files, {k}) = DictDel(container.files, {k})
     /\ MetaDel(container'.metadata, {k}) = MetaDel(container.metadata, {k})
\* When the stores of a commit are done, each key stored has one entry and
\* one record, and the entries of the other keys are those the Container
\* had when the commit began.
OneEntryPerStoredKey ==
  (last.cmd = "commit" /\ (Saving \/ (Returned /\ last.result = "ok"))) =>
    LET stored == Range(hist.stored)
    IN /\ \A k \in stored : /\ Cardinality(EntriesOf(container, k)) = 1
                            /\ k \in DOMAIN container.metadata
       /\ DOMAIN container.metadata = Keys(container.files)
       /\ DictDel(container.files, stored) = DictDel(hist.mem.files, stored)
       /\ Len(container.files)
            = Len(hist.mem.files) + Cardinality(stored \ Keys(hist.mem.files))
\* C23: key collision.  When a commit processes a file whose key is already
\* in the Container, or two staged paths of one commit map to the same key,
\* the entry is overwritten: afterwards the Container holds exactly one entry
\* and one metadata record for that key, they describe the content processed
\* last, and the number of other entries is unchanged.
C23_KeyCollision ==
  []OneEntryPerStoredKey /\ [][StoresOver => Overwritten]_vars
\* A commit of the same path staged twice has returned; its key was in the
\* Container before with another content, next to the two entries of a
\* folder, and the Container still has three entries.
C23_Witness ==
  /\ Returned /\ last.cmd = "commit" /\ last.result = "ok"
  /\ Len(hist.stored) = 2 /\ hist.stored[1] = hist.stored[2]
  /\ \E i \in DOMAIN hist.mem.files, j \in DOMAIN container.files :
       /\ hist.mem.files[i].key = hist.stored[1]
       /\ container.files[j].key = hist.stored[1]
       /\ container.files[j].plain # hist.mem.files[i].plain
  /\ Len(hist.mem.files) = 3 /\ Len(container.files) = 3
  /\ VaultOnDisk = container


\* A commit call that ended with an error has the staging list it was
\* called with, path by path.
AbortKeepsStaged ==
  (Returned /\ last.cmd = "commit" /\ last.result \notin {"ok", "NothingStaged"}) =>
    /\ staging_area = hist.staged
    /\ staging_area # <<>>
    /\ hist.writes = 0
\* A step of a commit call changes the staging list only by emptying it, in
\* the step that returns, after the call's write of the vault file.
CommitEmptiesAfterWrite ==
  (session = "open" /\ last.cmd = "commit" /\ last'.cmd = "commit"
     /\ envLeft' = envLeft /\ staging_area' # staging_area)
    => /\ staging_area' = <<>>
       /\ pc' = "idle" /\ last'.result = "ok"
       /\ hist'.writes = 1
       /\ vdir'[vault_file] = container
====
